---------------------------- MODULE Spec2Model ----------------------------
(***************************************************************************)
(* Model of drivers/cpufreq/cpu-boost.c: the input-boost coordinator.      *)
(*                                                                         *)
(* Three contexts touch the per-cpu floors (sync_info.input_boost_min):    *)
(*   - the worker running input_boost_work      (do_input_boost),          *)
(*   - the worker running input_boost_rem       (do_input_boost_rem),      *)
(*   - every caller of input_boost_max_kick, which runs                    *)
(*     do_input_boost_max in its own context, not on cpu_boost_wq.         *)
(* cpu_boost_wq is allocated with alloc_workqueue(.., WQ_HIGHPRI, 0): it   *)
(* is not an ordered workqueue, so the two work items may execute at the   *)
(* same time; one work item never runs concurrently with itself.           *)
(* Every statement that reads or writes shared state is one step; the      *)
(* input handler and mdss_boost_kick are one step each.                    *)
(* input_boost_max_kick is an exported function without a lock: up to      *)
(* NrCallers callers are inside it at once.  update_policy_online takes    *)
(* one step for every online cpu: cpufreq_update_policy re-evaluates that  *)
(* cpu's policy through boost_adjust_notify.                               *)
(* Timers and workers may be late: a due timer fires, and a queued work    *)
(* item starts, at any later step.                                         *)
(*                                                                         *)
(* Three specifications share the variables:                               *)
(*   Spec        the coordinator after cpu_boost_init has returned 0;      *)
(*   SpecInit    cpu_boost_init step by step from the static initialisers, *)
(*               with the exported functions callable before, during and   *)
(*               after it, whatever it returns;                            *)
(*   SpecHook    boost_adjust_notify step by step, called by the policy    *)
(*               authority while the floors are being stored to.           *)
(***************************************************************************)
EXTENDS Integers, FiniteSets, Bags

(* ---- program constants ---- *)
IB_FREQ_MIN == 1113600
IB_FREQ_MAX == 1113600
IB_DURATION == 150
MDSS_TIMEOUT == 5000
\* (unsigned int)-1.  The code only ever tests the sentinel for equality
\* (line 69), so it is kept as its two's-complement reading.
UINT_MAX == -1
\* the "i < 4" of do_input_boost
TierSplit == 4
\* timer frequency of the build; msecs_to_jiffies rounds up to whole jiffies
HZ == 100
\* errno values cpu_boost_init can return, negated: -EFAULT when the work
\* queue cannot be allocated, and the error of input_register_handler (-EINTR)
EFAULT == 14
EINTR == 4

(* ---- bounds of the model ---- *)
\* number of possible cpus (for_each_possible_cpu)
NrCpus == 2

Cpus == 0 .. (NrCpus - 1)

\* number of callers that can be inside input_boost_max_kick at once
NrCallers == 2

\* durations (ms) callers pass to input_boost_max_kick
Durations == {0, 5000}

msecs_to_jiffies(m) == (m * HZ + 999) \div 1000

\* jiffies at which cpu_boost_init runs: last_input_time is still 0 and more
\* than MDSS_TIMEOUT has passed on the jiffies clock (INITIAL_JIFFIES).
BootJiffies == msecs_to_jiffies(MDSS_TIMEOUT) + 1

\* the instants (jiffies) at which the model lets something happen: boot,
\* and the last jiffy of the kick window of an input event at boot, when a
\* weak boost begun at boot and a strong boost of 5000 ms are due
Instants == { BootJiffies, BootJiffies + msecs_to_jiffies(MDSS_TIMEOUT) }

VARIABLES
    input_boost_min,   \* per-cpu sync_info.input_boost_min
    max_boost_active,  \* static bool max_boost_active
    st_cpu_bias,       \* extern bool st_cpu_bias
    last_input_time,   \* unsigned long last_input_time (jiffies)
    jiffies,           \* the kernel clock
    input_boost_work,  \* PENDING bit of input_boost_work: "idle" | "pending"
    input_boost_rem,   \* delayed work: [state: "idle"|"timer"|"queued"|"stuck",
                       \* expires]; "stuck" is PENDING set with neither a
                       \* timer armed nor a queue entry
    canceling,         \* who holds input_boost_rem in cancel_delayed_work_sync
    boost,             \* worker executing do_input_boost:      [pc, i]
    rem,               \* worker executing do_input_boost_rem:  [pc, i]
    max,               \* the callers inside input_boost_max_kick, a bag of
                       \* [pc, i, duration_ms]: callers differ in nothing but
                       \* their position in the function and their argument
    queued_under_max,  \* history: max_boost_active when input_boost_work was queued
    dropped,           \* history: a weak trigger was dropped while this work was pending
    rearm,             \* history: the expiry deadline a kick found when it was
                       \* accepted in WEAK_BOOST, until its activation completes
                       \* or a strong request arrives; 0 otherwise
    cpu,               \* per-cpu sync_info.cpu
    cpu_boost_wq,      \* "NULL" | "allocated"
    boost_adjust_nb,   \* the policy notifier: "unregistered" | "registered"
    cpuboost_input_handler, \* the input handler: "unregistered" | "registered"
    init,              \* cpu_boost_init: [pc, cpu, ret]
    notify,            \* the call of boost_adjust_notify in progress:
                       \* [pc, cpu, val, ib_min, is_max, policy, proposed]
    held,              \* history: the floors notify.cpu has held during the call
    online,            \* the online cpus (for_each_online_cpu): the first and
                       \* the last possible cpu
    policy             \* per cpu, the limits cpufreq_update_policy computed last
                       \* (policy->min, policy->max)

\* what cpu_boost_init sets up
setup == << cpu, cpu_boost_wq, boost_adjust_nb, cpuboost_input_handler, init >>

\* the state the coordinator's functions (lines 103-207) do not write:
\* what cpu_boost_init sets up, the call of the notifier in progress and the
\* online cpus
env == << setup, notify, held, online >>

vars == << input_boost_min, max_boost_active, st_cpu_bias, last_input_time,
           jiffies, input_boost_work, input_boost_rem, canceling,
           boost, rem, max, queued_under_max, dropped, rearm, env, policy >>

\* the variables of the program, without the history variables
prog == << input_boost_min, max_boost_active, st_cpu_bias, last_input_time,
           jiffies, input_boost_work, input_boost_rem, canceling,
           boost, rem, max, policy >>

Floors == {0, IB_FREQ_MIN, IB_FREQ_MAX, UINT_MAX}

RemIdle == [state |-> "idle", expires |-> 0]
ThreadIdle == [pc |-> "idle", i |-> 0]

TypeOK ==
    /\ input_boost_min \in [Cpus -> Floors]
    /\ max_boost_active \in BOOLEAN
    /\ st_cpu_bias \in BOOLEAN
    /\ last_input_time \in Nat
    /\ jiffies \in Instants
    /\ input_boost_work \in {"idle", "pending"}
    /\ input_boost_rem.state \in {"idle", "timer", "queued", "stuck"}
    /\ canceling \in {"none", "boost", "max"}
    /\ boost.pc \in {"idle", "cancel", "wait", "loop", "update", "queue"}
    /\ rem.pc \in {"idle", "loop", "update", "clear"}
    /\ IsABag(max)
    /\ BagCardinality(max) <= NrCallers
    /\ \A m \in BagToSet(max) :
         m.pc \in {"cancel", "wait", "loop", "update", "queue", "set"}
    /\ cpu \in [Cpus -> Cpus]
    /\ cpu_boost_wq \in {"NULL", "allocated"}
    /\ boost_adjust_nb \in {"unregistered", "registered"}
    /\ cpuboost_input_handler \in {"unregistered", "registered"}
    /\ init.pc \in {"alloc", "works", "cpus", "notifier", "handler", "done"}
    /\ notify.pc \in {"idle", "switch", "test", "value", "verify", "return"}
    /\ held \subseteq Floors
    /\ online \subseteq Cpus /\ online # {}
    /\ policy \in [Cpus -> [min : Nat, max : Nat]]

\* the limits of a cpu before any boost: policy->min and policy->max as the
\* user or the driver set them (kHz)
UserMin == 300000
UserMax == 2000000
UserLimits == [min |-> UserMin, max |-> UserMax]

\* no call of boost_adjust_notify is in progress
NotifyIdle == [pc |-> "idle", cpu |-> 0, val |-> "none", ib_min |-> 0,
               is_max |-> FALSE,
               policy |-> [min |-> 0, max |-> 0],
               proposed |-> [min |-> 0, max |-> 0]]

\* cpu_boost_init has returned ret
InitDone(ret) == [pc |-> "done", cpu |-> 0, ret |-> ret]

(* static initialisers (lines 38-44) and cpu_boost_init (lines 280-300),
   returned with 0 *)
Init ==
    /\ input_boost_min = [c \in Cpus |-> 0]
    /\ max_boost_active = FALSE
    /\ st_cpu_bias = FALSE
    /\ last_input_time = 0
    /\ jiffies = BootJiffies
    /\ input_boost_work = "idle"
    /\ input_boost_rem = RemIdle
    /\ canceling = "none"
    /\ boost = ThreadIdle
    /\ rem = ThreadIdle
    /\ max = EmptyBag
    /\ queued_under_max = FALSE
    /\ dropped = FALSE
    /\ rearm = 0
    /\ cpu = [c \in Cpus |-> c]
    /\ cpu_boost_wq = "allocated"
    /\ boost_adjust_nb = "registered"
    /\ cpuboost_input_handler = "registered"
    /\ init = InitDone(0)
    /\ notify = NotifyIdle
    /\ held = {}
    /\ online = {0, NrCpus - 1}
    /\ policy = [c \in Cpus |-> UserLimits]

(* ---- kernel primitives ---- *)

\* time_after(a, b): a is later than b
time_after(a, b) == a > b

\* work_pending(&input_boost_work)
work_pending == input_boost_work = "pending"

\* queue_delayed_work(cpu_boost_wq, &input_boost_rem, delay): the value of
\* input_boost_rem afterwards.  Nothing happens when the work is already
\* pending (timer armed or queued) or a canceller holds it; a delay of 0
\* queues it at once.
queue_delayed_work(delay) ==
    IF input_boost_rem.state # "idle" \/ canceling # "none"
    THEN input_boost_rem
    ELSE IF delay = 0
         THEN [state |-> "queued", expires |-> 0]
         ELSE [state |-> "timer", expires |-> jiffies + delay]

\* cpu_boost_wq is allocated and the two work items are initialised
\* (lines 285-290)
Ready == cpu_boost_wq = "allocated" /\ init.pc \notin {"alloc", "works"}

\* the floor do_input_boost gives cpu i
boost_freq(i) == IF i < TierSplit THEN IB_FREQ_MIN ELSE IB_FREQ_MAX

\* no activation, expiry or strong request is executing
NothingRunning ==
    /\ boost.pc = "idle" /\ rem.pc = "idle"
    /\ max = EmptyBag
    /\ canceling = "none"

\* WEAK_BOOST: a completed weak activation whose expiry is not yet due
WeakBoostActive ==
    /\ NothingRunning
    /\ input_boost_work = "idle"
    /\ ~max_boost_active
    /\ input_boost_rem.state = "timer"
    /\ time_after(input_boost_rem.expires, jiffies)
    /\ \A c \in Cpus : input_boost_min[c] = boost_freq(c)


\* cancel_delayed_work_sync(&input_boost_rem) can take PENDING: no other
\* canceller holds the work, and PENDING is not set with nothing to remove
\* (the call retries until it is cleared, which init_works does)
can_grab_pending == canceling = "none" /\ input_boost_rem.state # "stuck"

\* cancel_delayed_work_sync(&input_boost_rem), entered with no other canceller
\* at work: the pending timer or queue entry is removed; when the work is
\* executing the caller then waits for it, holding the work so that
\* queue_delayed_work cannot re-arm it meanwhile.
cancel_delayed_work_sync(self) ==
    IF rem.pc = "idle"
    THEN [pc |-> "loop", canceling |-> "none"]
    ELSE [pc |-> "wait", canceling |-> self]

(* ---- boost_adjust_notify (lines 57-84) as a function ---- *)

\* the notifier events: the one the hook acts on and another one
CPUFREQ_ADJUST == "CPUFREQ_ADJUST"
CPUFREQ_NOTIFY == "CPUFREQ_NOTIFY"

\* the frequencies (kHz) proposed limits are drawn from: below, at and above
\* the boost tiers
Freqs == {UserMin, IB_FREQ_MIN, UserMax}

\* the limits the policy authority proposes: policy->min <= policy->max
Proposals ==
    { pol \in [min : Freqs, max : Freqs] : pol.min <= pol.max }

\* a < b on unsigned int, UINT_MAX being the largest value
u_lt(a, b) == a # UINT_MAX /\ (b = UINT_MAX \/ a < b)

\* min(a, b) on unsigned int
u_min(a, b) == IF u_lt(a, b) THEN a ELSE b

\* cpufreq_verify_within_limits(policy, min, max) of <linux/cpufreq.h>
cpufreq_verify_within_limits(pol, lo, hi) ==
    LET p1 == IF u_lt(pol.min, lo) THEN [pol EXCEPT !.min = lo] ELSE pol
        p2 == IF u_lt(p1.max, lo) THEN [p1 EXCEPT !.max = lo] ELSE p1
        p3 == IF u_lt(hi, p2.min) THEN [p2 EXCEPT !.min = hi] ELSE p2
        p4 == IF u_lt(hi, p3.max) THEN [p3 EXCEPT !.max = hi] ELSE p3
    IN  IF u_lt(p4.max, p4.min) THEN [p4 EXCEPT !.min = p4.max] ELSE p4

\* mutant: the boost floor is not clamped to policy->max
boost_min_unclamped(is_max, v, pmax) == IF is_max THEN pmax ELSE v

\* lines 69-70: is_max is the outcome of the test of line 69, v the value
\* line 70 reads
boost_min(is_max, v, pmax) == u_min(IF is_max THEN pmax ELSE v, pmax)

\* mutant: policy->min is assigned the boost floor
adjusted_assigned(pol, ib_min) == [pol EXCEPT !.min = ib_min]

\* line 76
adjusted(pol, ib_min) == cpufreq_verify_within_limits(pol, ib_min, UINT_MAX)

\* the policy boost_adjust_notify leaves when its three loads of
\* s->input_boost_min (lines 63, 69, 70) return r1, r2 and r3
notified(val, pol, r1, r2, r3) ==
    IF val # CPUFREQ_ADJUST \/ r1 = 0
    THEN pol
    ELSE adjusted(pol, boost_min(r2 = UINT_MAX, r3, pol.max))

(* ---- update_policy_online (lines 90-101) and the policies ---- *)

\* the first online cpu from i on, NrCpus when there is none:
\* for_each_online_cpu
next_online(i) ==
    IF \E c \in online : c >= i
    THEN CHOOSE c \in online : c >= i /\ \A d \in online : d >= i => c <= d
    ELSE NrCpus

\* line 98, cpufreq_update_policy(c): the policy authority recomputes the
\* limits of cpu c from the user's and calls the registered notifiers on
\* CPUFREQ_ADJUST, holding the policy's lock; the call is one step, made at
\* one point of the floor's history
cpufreq_update_policy(c) ==
    policy' = [policy EXCEPT ![c] =
                 LET f == input_boost_min[c]
                 IN  IF boost_adjust_nb = "registered"
                     THEN notified(CPUFREQ_ADJUST, UserLimits, f, f, f)
                     ELSE UserLimits]

\* one pass of the loop of lines 96-99 by a function whose loop is at index i
update_policy_online(i) == cpufreq_update_policy(next_online(i))

\* the index after one pass of the loop begun at index i, NrCpus when the
\* loop is over
after_online(i) ==
    IF next_online(next_online(i) + 1) < NrCpus
    THEN next_online(i) + 1
    ELSE NrCpus

(* ---- the clock and the timer ---- *)

Tick ==
    /\ \E t \in Instants : t > jiffies /\ jiffies' = t
    /\ UNCHANGED << input_boost_min, max_boost_active, st_cpu_bias,
                    last_input_time, input_boost_work, input_boost_rem,
                    canceling, boost, rem, max, queued_under_max, dropped, rearm >>
    /\ UNCHANGED << env, policy >>

\* the timer of input_boost_rem expires: the work goes onto cpu_boost_wq
delayed_work_timer_fn ==
    /\ input_boost_rem.state = "timer"
    /\ ~ time_after(input_boost_rem.expires, jiffies)
    /\ input_boost_rem' = [state |-> "queued", expires |-> 0]
    /\ UNCHANGED << input_boost_min, max_boost_active, st_cpu_bias,
                    last_input_time, jiffies, input_boost_work, canceling,
                    boost, rem, max, queued_under_max, dropped, rearm >>
    /\ UNCHANGED << env, policy >>

(* ---- weak triggers (lines 155-166, 195-207) ---- *)

\* mutant: st_cpu_bias is set before the work_pending test
cpuboost_input_event_bias_first ==
    /\ cpuboost_input_handler = "registered"
    /\ last_input_time' = jiffies
    /\ st_cpu_bias' = TRUE
    /\ IF work_pending
       THEN /\ dropped' = TRUE
            /\ UNCHANGED << input_boost_work, queued_under_max >>
       ELSE /\ input_boost_work' = "pending"
            /\ queued_under_max' = max_boost_active
            /\ dropped' = FALSE
    /\ UNCHANGED << input_boost_min, max_boost_active, jiffies,
                    input_boost_rem, canceling, boost, rem, max, rearm >>
    /\ UNCHANGED << env, policy >>

\* mutant: an input event is also dropped while do_input_boost is executing
cpuboost_input_event_dedup_running ==
    /\ cpuboost_input_handler = "registered"
    /\ last_input_time' = jiffies
    /\ IF work_pending \/ boost.pc # "idle"
       THEN /\ dropped' = TRUE
            /\ UNCHANGED << st_cpu_bias, input_boost_work, queued_under_max >>
       ELSE /\ st_cpu_bias' = TRUE
            /\ input_boost_work' = "pending"
            /\ queued_under_max' = max_boost_active
            /\ dropped' = FALSE
    /\ UNCHANGED << input_boost_min, max_boost_active, jiffies,
                    input_boost_rem, canceling, boost, rem, max, rearm >>
    /\ UNCHANGED << env, policy >>

cpuboost_input_event ==
    /\ cpuboost_input_handler = "registered"
    /\ last_input_time' = jiffies
    /\ IF work_pending
       THEN /\ dropped' = TRUE
            /\ UNCHANGED << st_cpu_bias, input_boost_work, queued_under_max >>
       ELSE /\ st_cpu_bias' = TRUE
            /\ input_boost_work' = "pending"
            /\ queued_under_max' = max_boost_active
            /\ dropped' = FALSE
    /\ UNCHANGED << input_boost_min, max_boost_active, jiffies,
                    input_boost_rem, canceling, boost, rem, max, rearm >>
    /\ UNCHANGED << env, policy >>

\* mutant: time_after_eq in place of time_after
mdss_dropped_eq ==
    \/ work_pending
    \/ jiffies >= last_input_time + msecs_to_jiffies(MDSS_TIMEOUT)

\* the test of lines 157-158
mdss_dropped ==
    \/ work_pending
    \/ time_after(jiffies, last_input_time + msecs_to_jiffies(MDSS_TIMEOUT))

\* lines 155-166.  queue_work before Ready sets PENDING and queues nothing:
\* on the allocated work queue the zeroed work item is refused with a
\* warning, on a NULL work queue the kernel oopses.  The call is the last
\* statement, so both leave this state, and no worker runs the work
\* (boost_start).
mdss_boost_kick ==
    /\ IF mdss_dropped
       THEN /\ dropped' = (dropped \/ work_pending)
            /\ UNCHANGED << st_cpu_bias, input_boost_work, queued_under_max,
                            rearm >>
       ELSE /\ st_cpu_bias' = TRUE
            /\ input_boost_work' = "pending"
            /\ queued_under_max' = max_boost_active
            /\ dropped' = FALSE
            /\ rearm' = IF WeakBoostActive THEN input_boost_rem.expires ELSE 0
    /\ UNCHANGED << input_boost_min, max_boost_active, last_input_time,
                    jiffies, input_boost_rem, canceling, boost, rem, max >>
    /\ UNCHANGED << env, policy >>

(* ---- do_input_boost (lines 126-153), run by a worker ---- *)

\* mutant: the test of max_boost_active is missing
boost_start_unchecked ==
    /\ Ready
    /\ work_pending
    /\ boost.pc = "idle"
    /\ input_boost_work' = "idle"
    /\ queued_under_max' = FALSE
    /\ dropped' = FALSE
    /\ boost' = [pc |-> "cancel", i |-> 0]
    /\ UNCHANGED << input_boost_min, max_boost_active, st_cpu_bias,
                    last_input_time, jiffies, input_boost_rem, canceling,
                    rem, max, rearm >>
    /\ UNCHANGED << env, policy >>

\* the worker takes input_boost_work off the queue (PENDING is cleared) and
\* runs the test of line 131
boost_start ==
    /\ Ready
    /\ work_pending
    /\ boost.pc = "idle"
    /\ input_boost_work' = "idle"
    /\ queued_under_max' = FALSE
    /\ dropped' = FALSE
    /\ IF max_boost_active
       THEN boost' = ThreadIdle /\ rearm' = 0
       ELSE boost' = [pc |-> "cancel", i |-> 0] /\ rearm' = rearm
    /\ UNCHANGED << input_boost_min, max_boost_active, st_cpu_bias,
                    last_input_time, jiffies, input_boost_rem, canceling,
                    rem, max >>
    /\ UNCHANGED << env, policy >>

\* mutant: the pending expiry is not cancelled
boost_cancel_skipped ==
    /\ boost.pc = "cancel"
    /\ boost' = [pc |-> "loop", i |-> 0]
    /\ UNCHANGED << input_boost_min, max_boost_active, st_cpu_bias,
                    last_input_time, jiffies, input_boost_work,
                    input_boost_rem, canceling, rem, max, queued_under_max,
                    dropped, rearm >>
    /\ UNCHANGED << env, policy >>

\* line 135
boost_cancel ==
    /\ boost.pc = "cancel"
    /\ can_grab_pending
    /\ input_boost_rem' = RemIdle
    /\ LET r == cancel_delayed_work_sync("boost")
       IN  boost' = [pc |-> r.pc, i |-> 0] /\ canceling' = r.canceling
    /\ UNCHANGED << input_boost_min, max_boost_active, st_cpu_bias,
                    last_input_time, jiffies, input_boost_work, rem, max,
                    queued_under_max, dropped, rearm >>
    /\ UNCHANGED << env, policy >>

\* line 135, the wait for the executing do_input_boost_rem to return
boost_wait ==
    /\ boost.pc = "wait"
    /\ rem.pc = "idle"
    /\ canceling' = "none"
    /\ boost' = [pc |-> "loop", i |-> 0]
    /\ UNCHANGED << input_boost_min, max_boost_active, st_cpu_bias,
                    last_input_time, jiffies, input_boost_work,
                    input_boost_rem, rem, max, queued_under_max, dropped, rearm >>
    /\ UNCHANGED << env, policy >>

\* lines 139-146, one cpu
boost_loop ==
    /\ boost.pc = "loop"
    /\ input_boost_min' = [input_boost_min EXCEPT ![boost.i] = boost_freq(boost.i)]
    /\ boost' = IF boost.i + 1 < NrCpus
                THEN [pc |-> "loop", i |-> boost.i + 1]
                ELSE [pc |-> "update", i |-> 0]
    /\ UNCHANGED << max_boost_active, st_cpu_bias, last_input_time, jiffies,
                    input_boost_work, input_boost_rem, canceling, rem, max,
                    queued_under_max, dropped, rearm >>
    /\ UNCHANGED << env, policy >>

\* line 149: update_policy_online, one online cpu
boost_update ==
    /\ boost.pc = "update"
    /\ update_policy_online(boost.i)
    /\ boost' = IF after_online(boost.i) < NrCpus
                THEN [pc |-> "update", i |-> after_online(boost.i)]
                ELSE [pc |-> "queue", i |-> 0]
    /\ UNCHANGED << input_boost_min, max_boost_active, st_cpu_bias,
                    last_input_time, jiffies, input_boost_work,
                    input_boost_rem, canceling, rem, max, queued_under_max,
                    dropped, rearm >>
    /\ UNCHANGED env

\* lines 151-152
boost_queue ==
    /\ boost.pc = "queue"
    /\ input_boost_rem' = queue_delayed_work(msecs_to_jiffies(IB_DURATION))
    /\ boost' = ThreadIdle
    /\ rearm' = 0
    /\ UNCHANGED << input_boost_min, max_boost_active, st_cpu_bias,
                    last_input_time, jiffies, input_boost_work, canceling,
                    rem, max, queued_under_max, dropped >>
    /\ UNCHANGED << env, policy >>

do_input_boost ==
    boost_start \/ boost_cancel \/ boost_wait \/ boost_loop \/ boost_update
        \/ boost_queue

(* ---- do_input_boost_rem (lines 103-124), run by a worker ---- *)

\* the worker takes input_boost_rem off the queue and runs lines 108-109
rem_start ==
    /\ input_boost_rem.state = "queued"
    /\ rem.pc = "idle"
    /\ input_boost_rem' = RemIdle
    /\ st_cpu_bias' = FALSE
    /\ rem' = [pc |-> "loop", i |-> 0]
    /\ UNCHANGED << input_boost_min, max_boost_active, last_input_time,
                    jiffies, input_boost_work, canceling, boost, max,
                    queued_under_max, dropped, rearm >>
    /\ UNCHANGED << env, policy >>

\* lines 113-116, one cpu
rem_loop ==
    /\ rem.pc = "loop"
    /\ input_boost_min' = [input_boost_min EXCEPT ![rem.i] = 0]
    /\ rem' = IF rem.i + 1 < NrCpus
              THEN [pc |-> "loop", i |-> rem.i + 1]
              ELSE [pc |-> "update", i |-> 0]
    /\ UNCHANGED << max_boost_active, st_cpu_bias, last_input_time, jiffies,
                    input_boost_work, input_boost_rem, canceling, boost, max,
                    queued_under_max, dropped, rearm >>
    /\ UNCHANGED << env, policy >>

\* mutant: do_input_boost_rem does not re-evaluate the policies
rem_update_skipped ==
    /\ rem.pc = "update"
    /\ rem' = [pc |-> "clear", i |-> 0]
    /\ UNCHANGED << input_boost_min, max_boost_active, st_cpu_bias,
                    last_input_time, jiffies, input_boost_work,
                    input_boost_rem, canceling, boost, max, queued_under_max,
                    dropped, rearm >>
    /\ UNCHANGED << env, policy >>

\* line 119: update_policy_online, one online cpu
rem_update ==
    /\ rem.pc = "update"
    /\ update_policy_online(rem.i)
    /\ rem' = IF after_online(rem.i) < NrCpus
              THEN [pc |-> "update", i |-> after_online(rem.i)]
              ELSE [pc |-> "clear", i |-> 0]
    /\ UNCHANGED << input_boost_min, max_boost_active, st_cpu_bias,
                    last_input_time, jiffies, input_boost_work,
                    input_boost_rem, canceling, boost, max, queued_under_max,
                    dropped, rearm >>
    /\ UNCHANGED env

\* lines 121-123
rem_clear ==
    /\ rem.pc = "clear"
    /\ max_boost_active' = FALSE
    /\ rem' = ThreadIdle
    /\ UNCHANGED << input_boost_min, st_cpu_bias, last_input_time, jiffies,
                    input_boost_work, input_boost_rem, canceling, boost, max,
                    queued_under_max, dropped, rearm >>
    /\ UNCHANGED << env, policy >>

do_input_boost_rem == rem_start \/ rem_loop \/ rem_update \/ rem_clear

(* ---- input_boost_max_kick / do_input_boost_max (lines 168-193) ---- *)

\* the callers inside, with caller m gone on to n / with caller m gone
moved(m, n) == (max (-) SetToBag({m})) (+) SetToBag({n})
left(m) == max (-) SetToBag({m})

\* lines 187-190: a caller enters with its duration
input_boost_max_kick ==
    /\ BagCardinality(max) < NrCallers
    /\ \E d \in Durations :
         max' = max (+) SetToBag({[pc |-> "cancel", i |-> 0,
                                   duration_ms |-> d]})
    /\ st_cpu_bias' = TRUE
    /\ rearm' = 0
    /\ UNCHANGED << input_boost_min, max_boost_active, last_input_time,
                    jiffies, input_boost_work, input_boost_rem, canceling,
                    boost, rem, queued_under_max, dropped >>
    /\ UNCHANGED << env, policy >>

\* line 172
max_cancel(m) ==
    /\ m.pc = "cancel"
    /\ can_grab_pending
    /\ input_boost_rem' = RemIdle
    /\ LET r == cancel_delayed_work_sync("max")
       IN  max' = moved(m, [m EXCEPT !.pc = r.pc]) /\ canceling' = r.canceling
    /\ UNCHANGED << input_boost_min, max_boost_active, st_cpu_bias,
                    last_input_time, jiffies, input_boost_work, boost, rem,
                    queued_under_max, dropped, rearm >>
    /\ UNCHANGED << env, policy >>

\* line 172, the wait for the executing do_input_boost_rem to return
max_wait(m) ==
    /\ m.pc = "wait"
    /\ rem.pc = "idle"
    /\ canceling' = "none"
    /\ max' = moved(m, [m EXCEPT !.pc = "loop"])
    /\ UNCHANGED << input_boost_min, max_boost_active, st_cpu_bias,
                    last_input_time, jiffies, input_boost_work,
                    input_boost_rem, boost, rem, queued_under_max, dropped, rearm >>
    /\ UNCHANGED << env, policy >>

\* mutant: the duration is written to the floor in place of UINT_MAX
max_loop_duration(m) ==
    /\ m.pc = "loop"
    /\ input_boost_min' = [input_boost_min EXCEPT ![m.i] = m.duration_ms]
    /\ max' = moved(m, IF m.i + 1 < NrCpus
                       THEN [m EXCEPT !.i = m.i + 1]
                       ELSE [m EXCEPT !.pc = "update", !.i = 0])
    /\ UNCHANGED << max_boost_active, st_cpu_bias, last_input_time, jiffies,
                    input_boost_work, input_boost_rem, canceling, boost, rem,
                    queued_under_max, dropped, rearm >>
    /\ UNCHANGED << env, policy >>

\* lines 174-177, one cpu
max_loop(m) ==
    /\ m.pc = "loop"
    /\ input_boost_min' = [input_boost_min EXCEPT ![m.i] = UINT_MAX]
    /\ max' = moved(m, IF m.i + 1 < NrCpus
                       THEN [m EXCEPT !.i = m.i + 1]
                       ELSE [m EXCEPT !.pc = "update", !.i = 0])
    /\ UNCHANGED << max_boost_active, st_cpu_bias, last_input_time, jiffies,
                    input_boost_work, input_boost_rem, canceling, boost, rem,
                    queued_under_max, dropped, rearm >>
    /\ UNCHANGED << env, policy >>

\* line 179: update_policy_online, one online cpu
max_update(m) ==
    /\ m.pc = "update"
    /\ update_policy_online(m.i)
    /\ max' = moved(m, IF after_online(m.i) < NrCpus
                       THEN [m EXCEPT !.i = after_online(m.i)]
                       ELSE [m EXCEPT !.pc = "queue", !.i = 0])
    /\ UNCHANGED << input_boost_min, max_boost_active, st_cpu_bias,
                    last_input_time, jiffies, input_boost_work,
                    input_boost_rem, canceling, boost, rem, queued_under_max,
                    dropped, rearm >>
    /\ UNCHANGED env

\* the call of lines 181-182 reaches the work queue: the work is neither
\* pending nor held by a canceller
max_queues == input_boost_rem.state = "idle" /\ canceling = "none"

\* queue_delayed_work before Ready comes back to its caller: the work queue
\* is allocated and the delay is 0, so that the zeroed work item goes
\* straight to the queueing, which finds its list entry not empty, warns and
\* returns without queueing it.  A delay arms the zeroed timer, which has no
\* function (BUG), and a work queue that is NULL is dereferenced: the kernel
\* oopses and kills the caller, or stops, which leaves that state for ever.
queue_returns(delay) == cpu_boost_wq = "allocated" /\ delay = 0

\* lines 181-182.  Before Ready the call sets PENDING and queues nothing;
\* the caller goes on to line 184 when the call returns
max_queue(m) ==
    /\ m.pc = "queue"
    /\ IF Ready \/ ~ max_queues
       THEN /\ input_boost_rem' =
                  queue_delayed_work(msecs_to_jiffies(m.duration_ms))
            /\ max' = moved(m, [m EXCEPT !.pc = "set"])
       ELSE /\ input_boost_rem' = [state |-> "stuck", expires |-> 0]
            /\ max' = IF queue_returns(msecs_to_jiffies(m.duration_ms))
                      THEN moved(m, [m EXCEPT !.pc = "set"])
                      ELSE left(m)
    /\ UNCHANGED << input_boost_min, max_boost_active, st_cpu_bias,
                    last_input_time, jiffies, input_boost_work, canceling,
                    boost, rem, queued_under_max, dropped, rearm >>
    /\ UNCHANGED << env, policy >>

\* line 184, and the return to the caller
max_set(m) ==
    /\ m.pc = "set"
    /\ max_boost_active' = TRUE
    /\ max' = left(m)
    /\ UNCHANGED << input_boost_min, st_cpu_bias, last_input_time, jiffies,
                    input_boost_work, input_boost_rem, canceling, boost, rem,
                    queued_under_max, dropped, rearm >>
    /\ UNCHANGED << env, policy >>

\* each caller inside takes its steps on its own
do_input_boost_max ==
    \/ \E m \in BagToSet(max) : max_cancel(m)
    \/ \E m \in BagToSet(max) : max_wait(m)
    \/ \E m \in BagToSet(max) : max_loop(m)
    \/ \E m \in BagToSet(max) : max_update(m)
    \/ \E m \in BagToSet(max) : max_queue(m)
    \/ \E m \in BagToSet(max) : max_set(m)

Next ==
    \/ Tick
    \/ delayed_work_timer_fn
    \/ cpuboost_input_event
    \/ mdss_boost_kick
    \/ do_input_boost
    \/ do_input_boost_rem
    \/ input_boost_max_kick
    \/ do_input_boost_max

Spec == Init /\ [][Next]_vars

(* ---- cpu_boost_init (lines 280-300) ---- *)

\* the state before cpu_boost_init runs: the static initialisers of lines
\* 38-44 (the per-cpu records are zero) and nothing allocated or registered
Boot ==
    /\ input_boost_min = [c \in Cpus |-> 0]
    /\ max_boost_active = FALSE
    /\ st_cpu_bias = FALSE
    /\ last_input_time = 0
    /\ jiffies = BootJiffies
    /\ input_boost_work = "idle"
    /\ input_boost_rem = RemIdle
    /\ canceling = "none"
    /\ boost = ThreadIdle
    /\ rem = ThreadIdle
    /\ max = EmptyBag
    /\ queued_under_max = FALSE
    /\ dropped = FALSE
    /\ rearm = 0
    /\ cpu = [c \in Cpus |-> 0]
    /\ cpu_boost_wq = "NULL"
    /\ boost_adjust_nb = "unregistered"
    /\ cpuboost_input_handler = "unregistered"
    /\ init = [pc |-> "alloc", cpu |-> 0, ret |-> 0]
    /\ notify = NotifyIdle
    /\ held = {}
    /\ online = {0, NrCpus - 1}
    /\ policy = [c \in Cpus |-> UserLimits]

\* the program state the notifier does not write
running == << input_boost_min, max_boost_active, st_cpu_bias, last_input_time,
              jiffies, input_boost_work, input_boost_rem, canceling,
              boost, rem, max, queued_under_max, dropped, rearm >>

\* lines 285-287: alloc_workqueue succeeds or returns NULL
init_alloc ==
    /\ init.pc = "alloc"
    /\ \E ok \in BOOLEAN :
         IF ok
         THEN /\ cpu_boost_wq' = "allocated"
              /\ init' = [init EXCEPT !.pc = "works"]
         ELSE /\ cpu_boost_wq' = "NULL"
              /\ init' = InitDone(-EFAULT)
    /\ UNCHANGED << running, cpu, boost_adjust_nb, cpuboost_input_handler,
                    notify, held, online, policy >>

\* lines 289-290: INIT_WORK and INIT_DELAYED_WORK leave both work items idle
init_works ==
    /\ init.pc = "works"
    /\ input_boost_work' = "idle"
    /\ input_boost_rem' = RemIdle
    /\ queued_under_max' = FALSE
    /\ dropped' = FALSE
    /\ init' = [init EXCEPT !.pc = "cpus"]
    /\ UNCHANGED << input_boost_min, max_boost_active, st_cpu_bias,
                    last_input_time, jiffies, canceling, boost, rem, max,
                    rearm >>
    /\ UNCHANGED << cpu, cpu_boost_wq, boost_adjust_nb,
                    cpuboost_input_handler, notify, held, online, policy >>

\* lines 292-295, one cpu
init_cpus ==
    /\ init.pc = "cpus"
    /\ cpu' = [cpu EXCEPT ![init.cpu] = init.cpu]
    /\ init' = IF init.cpu + 1 < NrCpus
               THEN [init EXCEPT !.cpu = init.cpu + 1]
               ELSE [init EXCEPT !.pc = "notifier", !.cpu = 0]
    /\ UNCHANGED << running, cpu_boost_wq, boost_adjust_nb,
                    cpuboost_input_handler, notify, held, online, policy >>

\* line 296; the return value is not looked at
init_notifier ==
    /\ init.pc = "notifier"
    /\ boost_adjust_nb' = "registered"
    /\ init' = [init EXCEPT !.pc = "handler"]
    /\ UNCHANGED << running, cpu, cpu_boost_wq, cpuboost_input_handler,
                    notify, held, online, policy >>

\* lines 297-299: input_register_handler succeeds or fails, and its result
\* is returned
init_handler ==
    /\ init.pc = "handler"
    /\ \E ret \in {0, -EINTR} :
         /\ cpuboost_input_handler' =
                IF ret = 0 THEN "registered" ELSE "unregistered"
         /\ init' = InitDone(ret)
    /\ UNCHANGED << running, cpu, cpu_boost_wq, boost_adjust_nb,
                    notify, held, online, policy >>

cpu_boost_init ==
    init_alloc \/ init_works \/ init_cpus \/ init_notifier \/ init_handler

\* cpu_boost_init and the coordinator side by side: the exported functions
\* take no notice of what cpu_boost_init has done
NextInit == cpu_boost_init \/ Next

SpecInit == Boot /\ [][NextInit]_vars

(* ---- boost_adjust_notify (lines 57-84) step by step ---- *)

\* the policy authority calls the notifier for a cpu with proposed limits;
\* lines 60-63, with the first load of the floor
notify_call ==
    /\ notify.pc = "idle"
    /\ boost_adjust_nb = "registered"
    /\ \E c \in Cpus, v \in {CPUFREQ_ADJUST, CPUFREQ_NOTIFY}, p \in Proposals :
         notify' = [pc |-> "switch", cpu |-> c, val |-> v,
                    ib_min |-> input_boost_min[c], is_max |-> FALSE,
                    policy |-> p, proposed |-> p]
    /\ held' = {input_boost_min[notify'.cpu]}
    /\ UNCHANGED << running, setup, online, policy >>

\* lines 65-68
notify_switch ==
    /\ notify.pc = "switch"
    /\ notify' = [notify EXCEPT !.pc =
                    IF notify.val # CPUFREQ_ADJUST \/ notify.ib_min = 0
                    THEN "return" ELSE "test"]
    /\ UNCHANGED << running, setup, held, online, policy >>

\* line 69: the second load, and its test against UINT_MAX
notify_test ==
    /\ notify.pc = "test"
    /\ notify' = [notify EXCEPT !.pc = "value",
                      !.is_max = (input_boost_min[notify.cpu] = UINT_MAX)]
    /\ UNCHANGED << running, setup, held, online, policy >>

\* lines 69-70: the third load and the min with policy->max
notify_value ==
    /\ notify.pc = "value"
    /\ notify' = [notify EXCEPT !.pc = "verify", !.is_max = FALSE,
                      !.ib_min = boost_min(notify.is_max,
                                           input_boost_min[notify.cpu],
                                           notify.policy.max)]
    /\ UNCHANGED << running, setup, held, online, policy >>

\* line 76
notify_verify ==
    /\ notify.pc = "verify"
    /\ notify' = [notify EXCEPT !.pc = "return",
                      !.policy = adjusted(notify.policy, notify.ib_min)]
    /\ UNCHANGED << running, setup, held, online, policy >>

\* line 83: the policy authority takes the adjusted limits
notify_return ==
    /\ notify.pc = "return"
    /\ notify' = NotifyIdle
    /\ held' = {}
    /\ UNCHANGED << running, setup, online, policy >>

boost_adjust_notify ==
    \/ notify_call \/ notify_switch \/ notify_test \/ notify_value
    \/ notify_verify \/ notify_return

\* what the floor stores of lines 115, 143, 145 and 176 leave unchanged
but_floors == << max_boost_active, st_cpu_bias, last_input_time, jiffies,
                input_boost_work, input_boost_rem, canceling, boost, rem,
                max, queued_under_max, dropped, rearm, setup, notify,
                online, policy >>

\* a store to cpu c's floor by one of the three loops, seen from the notifier
store(c, v) ==
    /\ input_boost_min' = [input_boost_min EXCEPT ![c] = v]
    /\ held' = IF notify.pc \in {"idle", "return"} \/ c # notify.cpu
               THEN held ELSE held \cup {v}
    /\ UNCHANGED but_floors

\* line 115
rem_store == \E c \in Cpus : store(c, 0)
\* lines 143 and 145
boost_store == \E c \in Cpus : store(c, boost_freq(c))
\* line 176
max_store == \E c \in Cpus : store(c, UINT_MAX)

NextHook ==
    \/ boost_adjust_notify
    \/ rem_store
    \/ boost_store
    \/ max_store

\* the notifier called while the floors are being written
SpecHook == Init /\ [][NextHook]_vars

(* ---- what the claims speak of ---- *)

AllUnbounded(f) == \A c \in Cpus : f[c] = UINT_MAX
AllZero(f) == \A c \in Cpus : f[c] = 0
AllWeak(f) == \A c \in Cpus : f[c] = boost_freq(c)

\* the expiry task is scheduled: its timer is armed or it sits on the queue
ExpiryScheduled == input_boost_rem.state # "idle"

\* no caller is inside input_boost_max_kick
NoStrong == max = EmptyBag

\* nothing is queued, armed or executing: without a new trigger no step but
\* the clock's is possible
AtRest == NothingRunning /\ ~work_pending /\ ~ExpiryScheduled

\* what queue_delayed_work leaves when it takes effect at the current jiffies
Armed(delay) ==
    IF delay = 0
    THEN [state |-> "queued", expires |-> 0]
    ELSE [state |-> "timer", expires |-> jiffies + delay]

\* C1: a strong-boost request always takes effect: its queue_delayed_work
\* arms the expiry d ms after the request, and when it returns every floor
\* is UINT_MAX and max_boost_active is true (the floors are looked at for
\* d > 0 only: an expiry due at once may run before the request returns).
C1_StrongBoostTakesEffect ==
    [][ \A m \in BagToSet(max) :
          /\ max_queue(m) =>
               input_boost_rem' = Armed(msecs_to_jiffies(m.duration_ms))
          /\ (max_set(m) /\ m.duration_ms > 0) =>
               AllUnbounded(input_boost_min') /\ max_boost_active' ]_vars

\* C2: whenever max_boost_active is true and no strong request is executing,
\* every floor is UINT_MAX.  Stated for the states between tasks only (no
\* activation or expiry executing either), which the claim includes.
C2_MaxActiveImpliesUnbounded ==
    (max_boost_active /\ NothingRunning) => AllUnbounded(input_boost_min)

\* C3, as claimed: the activation work queued by a weak trigger that arrived
\* while max_boost_active was true returns at once (line 132), touching
\* neither the expiry nor any floor.
C3_Original ==
    [][ (boost_start /\ queued_under_max) =>
            /\ boost' = ThreadIdle
            /\ UNCHANGED << input_boost_min, input_boost_rem, canceling >> ]_vars

\* C3, amended: the activation work that starts while max_boost_active is
\* true returns at once, without cancelling or rescheduling the expiry and
\* without writing any floor.
C3_SuppressedWhenStartedUnderMax ==
    [][ (boost_start /\ max_boost_active) =>
            /\ boost' = ThreadIdle
            /\ UNCHANGED << input_boost_min, input_boost_rem, canceling,
                            max_boost_active >> ]_vars

\* C3 witness: a weak trigger has queued its work during a strong boost that
\* is still in force (floors unbounded, expiry armed, flag set).
C3_Witness ==
    /\ work_pending /\ queued_under_max /\ max_boost_active
    /\ NothingRunning
    /\ AllUnbounded(input_boost_min)
    /\ input_boost_rem.state = "timer"

\* C4: the expiry task is scheduled iff some core has a non-zero floor.
\* Stated for the states between tasks only, which the claim includes.
C4_ExpiryIffFloor ==
    NothingRunning => (ExpiryScheduled <=> ~AllZero(input_boost_min))

\* C5: every boost is eventually released.  With nothing queued, armed or
\* executing and no further trigger the coordinator can no longer change, so
\* such a state has to be IDLE already: floors 0 and max_boost_active false.
C5_AtRestIsIdle ==
    AtRest => (AllZero(input_boost_min) /\ ~max_boost_active)

\* C6: when the expiry task has run to completion every floor is 0 and
\* max_boost_active is false.
C6_ExpiryCompletes ==
    [][ rem_clear => (AllZero(input_boost_min') /\ ~max_boost_active') ]_vars

\* C7: when a weak activation that passed the max_boost_active test
\* completes, cores below TierSplit hold IB_FREQ_MIN and the others
\* IB_FREQ_MAX, and the one expiry is armed IB_DURATION after the activation.
C7_WeakActivationCompletes ==
    [][ boost_queue =>
            /\ AllWeak(input_boost_min')
            /\ input_boost_rem' = Armed(msecs_to_jiffies(IB_DURATION)) ]_vars


\* the program variables a dropped weak trigger may not touch, other than
\* last_input_time
prog_but_time == << input_boost_min, max_boost_active, st_cpu_bias, jiffies,
                    input_boost_work, input_boost_rem, canceling, boost, rem,
                    max, policy >>

\* C8, as claimed: a weak trigger that arrives while the activation work is
\* pending changes nothing, last_input_time included.
C8_Original ==
    [][ (work_pending /\ (cpuboost_input_event \/ mdss_boost_kick)) =>
            UNCHANGED prog ]_vars

\* C8, amended: a weak trigger that arrives while the activation work is
\* pending is dropped; floors, expiry, max_boost_active, st_cpu_bias and the
\* pending work are unchanged; a dropped kick leaves last_input_time alone,
\* a dropped input event still sets it to the current jiffies.
C8_DroppedWhilePending ==
    [][ /\ (work_pending /\ cpuboost_input_event) =>
             (UNCHANGED prog_but_time /\ last_input_time' = jiffies)
        /\ (work_pending /\ mdss_boost_kick) => UNCHANGED prog ]_vars

\* C8 witness: a weak trigger has been dropped while the work is still
\* pending, after boot time, with last_input_time at the current jiffies.
C8_Witness ==
    /\ work_pending /\ dropped
    /\ boost.pc = "idle"
    /\ last_input_time = jiffies
    /\ jiffies > BootJiffies

\* a kick that changes the program state / that queues the activation work
KickChanges == mdss_boost_kick /\ prog' # prog
KickQueues ==
    /\ mdss_boost_kick
    /\ input_boost_work' = "pending"
    /\ st_cpu_bias'
    /\ UNCHANGED << input_boost_min, max_boost_active, last_input_time,
                    jiffies, input_boost_rem, canceling, boost, rem, max >>

\* more than MDSS_TIMEOUT has passed since last_input_time
KickStale == jiffies - last_input_time > msecs_to_jiffies(MDSS_TIMEOUT)

\* C9: more than MDSS_TIMEOUT after last_input_time a kick changes nothing;
\* within the window (its last jiffy included) and with no activation
\* pending a kick queues the activation work, and nothing else but
\* st_cpu_bias changes.
C9_KickStaleness ==
    /\ KickStale => ~ ENABLED KickChanges
    /\ (~KickStale /\ ~work_pending) => ENABLED KickQueues

\* C9 witness: a kick has been accepted and its work is pending, at the very
\* last jiffy of the window.
C9_Witness ==
    /\ work_pending /\ rearm # 0
    /\ boost.pc = "idle"
    /\ jiffies = last_input_time + msecs_to_jiffies(MDSS_TIMEOUT)

\* a kick accepted in WEAK_BOOST has its activation pending or executing
Rearming == rearm # 0

\* C10, as claimed: once a kick is accepted during a weak boost the earlier
\* expiry never runs, the floors stay at the weak tiers, the activation
\* arms the expiry IB_DURATION after itself, and the kick leaves
\* last_input_time alone.
C10_Original ==
    [][ /\ mdss_boost_kick => last_input_time' = last_input_time
        /\ Rearming => ~ rem_start
        /\ (Rearming /\ Rearming') => AllWeak(input_boost_min')
        /\ (Rearming /\ boost_queue) =>
             /\ AllWeak(input_boost_min')
             /\ input_boost_rem' = Armed(msecs_to_jiffies(IB_DURATION)) ]_vars

\* C10, amended: a kick accepted during a weak boost leaves last_input_time
\* alone; the earlier expiry is cancelled when the kick's activation runs
\* line 135 (it may fire before that); from then on, with no strong request
\* in between, no expiry runs and only the activation writes the floors,
\* and on completion the floors are at the weak tiers and the expiry is
\* armed IB_DURATION after the activation.
C10_KickRearms ==
    [][ /\ mdss_boost_kick => last_input_time' = last_input_time
        /\ (Rearming /\ boost_cancel) => input_boost_rem' = RemIdle
        /\ (Rearming /\ boost.pc \in {"loop", "update", "queue"}) =>
             /\ ~ rem_start /\ rem.pc = "idle"
             /\ ~ boost_loop => UNCHANGED input_boost_min
        /\ (Rearming /\ boost_queue) =>
             /\ AllWeak(input_boost_min')
             /\ input_boost_rem' = Armed(msecs_to_jiffies(IB_DURATION)) ]_vars

\* C10 witness: the activation of a kick accepted during a weak boost is
\* about to arm the new expiry, later than the expiry the kick found.
C10_Witness ==
    /\ Rearming
    /\ boost.pc = "queue"
    /\ AllWeak(input_boost_min)
    /\ ~ExpiryScheduled
    /\ NoStrong /\ rem.pc = "idle"
    /\ jiffies + msecs_to_jiffies(IB_DURATION) > rearm


(* ---- serialisation of the three functions ---- *)

\* a function is between its first and its last write to the floors or to
\* max_boost_active: do_input_boost writes the floors only; the first such
\* write of do_input_boost_rem is line 115 and its last line 122; the first
\* of do_input_boost_max is line 176 and its last line 184
BoostWriting == boost.pc = "loop" /\ boost.i >= 1
RemWriting ==
    \/ rem.pc = "loop" /\ rem.i >= 1
    \/ rem.pc \in {"update", "clear"}
MaxWriting ==
    \E m \in BagToSet(max) :
        \/ m.pc = "loop" /\ m.i >= 1
        \/ m.pc \in {"update", "queue", "set"}

\* C13: weak activation, strong activation and expiry execute one at a time:
\* no two of do_input_boost, do_input_boost_max and do_input_boost_rem are at
\* once between their first and last write.
C13_OneAtATime ==
    /\ ~ (BoostWriting /\ RemWriting)
    /\ ~ (BoostWriting /\ MaxWriting)
    /\ ~ (RemWriting /\ MaxWriting)

\* an activation has completed its cancel-and-wait and not yet scheduled its
\* own expiry
BoostPastCancel == boost.pc \in {"loop", "update", "queue"}
MaxPastCancel == \E m \in BagToSet(max) : m.pc \in {"loop", "update", "queue"}

\* some floors are zero and some are boosted
Mixed(f) == (\E c \in Cpus : f[c] = 0) /\ (\E c \in Cpus : f[c] # 0)

\* C14: once an activation has completed its cancel-and-wait, no expiry task
\* runs or zeroes a floor until the activation has written all floors and
\* scheduled its own expiry, and when an activation schedules its expiry the
\* floors are not a mix of zeroed and boosted cores.
C14_NoStaleExpiry ==
    [][ /\ (BoostPastCancel \/ MaxPastCancel) =>
             (rem.pc = "idle" /\ ~ rem_start)
        /\ (boost_queue \/ \E m \in BagToSet(max) : max_queue(m)) =>
             ~ Mixed(input_boost_min') ]_vars

\* C15: max_boost_active is true only while a strong boost's expiry is
\* pending: with max_boost_active true, no strong request executing and no
\* activation queued or executing, the expiry task is scheduled or executing.
C15_MaxActiveHasExpiry ==
    (max_boost_active /\ NoStrong /\ boost.pc = "idle" /\ ~work_pending)
        => (ExpiryScheduled \/ rem.pc # "idle")


(* ---- activations in flight ---- *)

\* C16, as claimed: counting a queued and an executing instance of the
\* activation work, at most one weak activation is in flight.
C16_Original == ~ (work_pending /\ boost.pc # "idle")

\* C16, amended: at most one activation is queued and at most one executes.
\* A weak trigger that arrives while the work is queued leaves the queue and
\* the executing instance alone; an input event that arrives while the work
\* is not queued queues it, also when do_input_boost is executing.
C16_OneQueuedOneRunning ==
    [][ /\ (work_pending /\ (cpuboost_input_event \/ mdss_boost_kick)) =>
             UNCHANGED << input_boost_work, boost >>
        /\ (~work_pending /\ cpuboost_input_event) =>
             (input_boost_work' = "pending" /\ boost' = boost) ]_vars

\* C16 witness: an input event has queued the activation work again while
\* do_input_boost is in its loop.
C16_Witness ==
    /\ work_pending
    /\ boost.pc = "loop" /\ boost.i >= 1
    /\ last_input_time = jiffies

(* ---- st_cpu_bias ---- *)

\* C20: in every IDLE state at rest (all floors 0, max_boost_active false,
\* no expiry pending, no activation queued, nothing executing) st_cpu_bias
\* is false.
C20_IdleHasNoBias ==
    (AtRest /\ AllZero(input_boost_min) /\ ~max_boost_active) => ~st_cpu_bias


(* ---- the per-cpu records and initialisation ---- *)

\* the loop of lines 292-295 has run: cpu_boost_init is past it, or has
\* returned after allocating the work queue
InitLoopDone ==
    \/ init.pc \in {"notifier", "handler"}
    \/ init.pc = "done" /\ cpu_boost_wq = "allocated"

\* C12: in every reachable state, also in the middle of a loop and under any
\* interleaving, every floor is one of 0, IB_FREQ_MIN, IB_FREQ_MAX, UINT_MAX,
\* and once the loop of lines 292-295 has run every record's cpu is its index.
C12_FloorsAndCoreId ==
    /\ \A c \in Cpus : input_boost_min[c] \in Floors
    /\ InitLoopDone => \A c \in Cpus : cpu[c] = c

\* C12 witness: after initialisation the three loops have interleaved: the
\* expiry is about to zero floors while a weak activation writes them, and
\* weak and unbounded floors are present at once.
C12_Witness ==
    /\ init = InitDone(0)
    /\ \A c \in Cpus : cpu[c] = c
    /\ \E a, b \in Cpus :
          /\ input_boost_min[a] = IB_FREQ_MIN
          /\ input_boost_min[b] = UINT_MAX
    /\ boost.pc = "loop" /\ rem.pc = "loop"

\* C17: when cpu_boost_init returns an error, no work queue remains allocated
\* and no policy-notifier or input-handler registration remains in place.
C17_InitAllOrNothing ==
    (init.pc = "done" /\ init.ret # 0) =>
        /\ cpu_boost_wq = "NULL"
        /\ boost_adjust_nb = "unregistered"
        /\ cpuboost_input_handler = "unregistered"


(* ---- the policy-adjustment hook ---- *)

Max2(a, b) == IF a >= b THEN a ELSE b
Min2(a, b) == IF a <= b THEN a ELSE b

\* the limits the claims state for floor f and proposed limits pol:
\* unchanged for f = 0, otherwise (max(min, e), max) with
\* e = min(f = UNBOUNDED ? max : f, max)
Expected(f, pol) ==
    IF f = 0
    THEN pol
    ELSE LET e == Min2(IF f = UINT_MAX THEN pol.max ELSE f, pol.max)
         IN  [min |-> Max2(pol.min, e), max |-> pol.max]

\* a call on CPUFREQ_ADJUST is about to return
Returning == notify.pc = "return" /\ notify.val = CPUFREQ_ADJUST

\* C11: for every floor f that a core holds throughout a call on
\* CPUFREQ_ADJUST and all proposed limits min <= max, the hook returns the
\* limits unchanged when f = 0 and otherwise (max(min, e), max) with
\* e = min(f = UINT_MAX ? max : f, max); the returned minimum never exceeds
\* max, the maximum is never changed, and no step of the hook writes
\* coordinator or per-core state.
C11_HookResult ==
    [][ boost_adjust_notify =>
          /\ UNCHANGED << running, setup, online, policy >>
          /\ Returning' =>
               \A f \in Floors :
                   held' = {f} =>
                     /\ notify'.policy = Expected(f, notify'.proposed)
                     /\ notify'.policy.min <= notify'.policy.max
                     /\ notify'.policy.max = notify'.proposed.max ]_vars

\* C11 witness: the claim's example, a floor of 1113600 held throughout a
\* call with proposed limits (300000, 2000000), returns (1113600, 2000000).
C11_Witness ==
    /\ Returning
    /\ held = {IB_FREQ_MIN}
    /\ notify.proposed = UserLimits
    /\ notify.policy = [min |-> IB_FREQ_MIN, max |-> UserMax]

\* C19: whatever the loads of the floor return while it is being written,
\* the returned limits satisfy proposed min <= returned min <= max with max
\* unchanged, and they are the limits the hook gives for one single floor
\* value the core held during the call.
C19_HookUnderWrites ==
    Returning =>
        /\ notify.proposed.min <= notify.policy.min
        /\ notify.policy.min <= notify.policy.max
        /\ notify.policy.max = notify.proposed.max
        /\ \E f \in held :
              notify.policy = notified(CPUFREQ_ADJUST, notify.proposed, f, f, f)

\* C19 witness: the floor was unbounded at the first load and weak at a
\* later one, and the call returns the weak floor as the minimum although the
\* floor is 0 by now.
C19_Witness ==
    /\ Returning
    /\ held = {UINT_MAX, IB_FREQ_MIN, 0}
    /\ input_boost_min[notify.cpu] = 0
    /\ notify.proposed = UserLimits
    /\ notify.policy = [min |-> IB_FREQ_MIN, max |-> UserMax]


(* ---- publication of the floors ---- *)

\* the limits cpu c's policy has are those the hook computes from its floor
Published(c) ==
    policy[c] = Expected(input_boost_min[c], UserLimits)

\* C18: in every quiescent state (no activation, strong request or expiry
\* executing) the limits last computed for every online cpu were computed
\* from that cpu's current floor.
C18_FloorsPublished ==
    NothingRunning => \A c \in online : Published(c)

\* C18 witness: a quiescent state reached through a race of a weak
\* activation with a strong request: max_boost_active is set, an online cpu
\* has the weak floor, and its policy has that floor as its minimum.
C18_Witness ==
    /\ NothingRunning
    /\ max_boost_active
    /\ \E c \in online :
          /\ input_boost_min[c] = IB_FREQ_MIN
          /\ policy[c] = [min |-> IB_FREQ_MIN, max |-> UserMax]

=============================================================================
